---- MODULE Spec2Model ----
(***************************************************************************)
(* Model of initSwap (src/src/account/importAccounts.js, lines 161-340):   *)
(* the swap-initiation flow run by one subscription of the observable.     *)
(* Every await of confirmSwap is a suspension point; the code between two  *)
(* awaits runs atomically and is one action.  The observer `o` is modelled *)
(* as a sink: `events` is the sequence of o.next calls the flow makes and  *)
(* `completes` counts its o.complete calls.                                *)
(***************************************************************************)
EXTENDS Integers, Sequences, FiniteSets, TLC

\* Number of independent initSwap invocations (each with its own closure).
NumFlows == 2

Flows == 1..NumFlows

\* getAbandonSeedAddress(refundCurrency.id)
AbandonSeedAddress == "abandon"

\* Recipients the caller's draft transaction may carry.
DraftRecipients == {AbandonSeedAddress, "draft"}

\* payinAddress values the rate-lock service may answer with.
PayinAddresses == {AbandonSeedAddress, "payin"}

\* currency.type of the payout and refund currencies
CurrencyTypes == {"CryptoCurrency", "TokenCurrency"}

NoError == "none"

\* The commands of the Swap device application.
DeviceCommands ==
  {"startNewTransaction", "setPartnerKey", "checkPartner", "processTransaction",
   "checkTransactionSignature", "checkPayoutAddress", "checkRefundAddress",
   "signCoinTransaction"}

ConfirmCommands == DeviceCommands \ {"startNewTransaction"}

BridgeCalls == {"updateTransaction", "prepareTransaction", "getTransactionStatus"}

AddressCalls == {"getPayoutAddressParameters", "getRefundAddressParameters"}

AwaitedCalls ==
  DeviceCommands \cup {"network", "prepareTransaction", "getTransactionStatus"}
    \cup AddressCalls

VARIABLES
  pc,                  \* position of each flow: "idle", the awaited call, "fulfilled", "rejected", "done"
  unsubscribed,        \* the closure flag of line 170
  cancelled,           \* the teardown of line 335 has been called
  exchange,            \* input: types of the payout and refund currencies
  transaction,         \* the draft transaction (closure variable reassigned at 238 and 248)
  deviceTransactionId, \* line 175; 0 until startNewTransaction has returned
  request,             \* rate-lock request bodies sent (line 196)
  res,                 \* line 194
  status,              \* errors of getTransactionStatus (line 253)
  rejection,           \* the error confirmSwap rejected with
  events,              \* o.next calls, in order
  completes,           \* number of o.complete calls
  calls,               \* network, bridge and device calls issued, with their outcome
  deviceNonce          \* the device's transaction counter

\* importAccountsMakeItems and importAccountsReduce (lines 24-130)
VARIABLES
  ipc,                 \* "idle", "make", "made", "remade", "reduce", "loop", "returned"
  result,              \* result.accounts: the incoming account data
  existingAccounts,    \* the caller's array of accounts
  original,            \* the contents of the caller's array when the call was made
  items,               \* the import items
  selectedAccounts,    \* the selected account ids
  accounts,            \* line 111: the array importAccountsReduce works on
  shared,              \* accounts is the caller's array itself, not a copy
  selectedItems,       \* line 112
  cursor               \* position of the for-of loop of line 115 in selectedItems

swapVars == <<pc, unsubscribed, cancelled, exchange, transaction, deviceTransactionId,
              request, res, status, rejection, events, completes, calls, deviceNonce>>

importVars == <<ipc, result, existingAccounts, original, items, selectedAccounts,
                accounts, shared, selectedItems, cursor>>

vars == <<pc, unsubscribed, cancelled, exchange, transaction, deviceTransactionId,
          request, res, status, rejection, events, completes, calls, deviceNonce,
          ipc, result, existingAccounts, original, items, selectedAccounts,
          accounts, shared, selectedItems, cursor>>

----------------------------------------------------------------------------
\* Values

NoRes == [kind |-> "undefined", data |-> <<>>]

\* res.data[0]: the signature is hex that secp256k1 can export, or is not.
SwapResults ==
  [swapId : {"swapId"}, payinAddress : PayinAddresses, signature : {"valid", "malformed"}]

\* What `res` can be after the POST resolved: undefined, an object without
\* data, an empty data array, or one swap result.
Responses ==
  {NoRes, [kind |-> "noData", data |-> <<>>], [kind |-> "data", data |-> <<>>]}
    \cup {[kind |-> "data", data |-> <<s>>] : s \in SwapResults}

NoStatus == [recipient |-> NoError, amount |-> NoError, other |-> NoError]

Statuses ==
  [recipient : {NoError, "RecipientError"}, amount : {NoError, "AmountError"},
   other : {NoError, "OtherError"}]

\* Mutation: the event of line 307 carries the type of the result.
RequestedEventMistyped ==
  [type |-> "init-swap-result", error |-> NoError, recipient |-> "none", swapId |-> "none"]

RequestedEvent ==
  [type |-> "init-swap-requested", error |-> NoError, recipient |-> "none", swapId |-> "none"]

ResultEvent(tx, swapId) ==
  [type |-> "init-swap-result", error |-> NoError, recipient |-> tx.recipient, swapId |-> swapId]

ErrorEvent(e) ==
  [type |-> "init-swap-error", error |-> e, recipient |-> "none", swapId |-> "none"]

Issue(cs, op) == Append(cs, [op |-> op, st |-> "inflight"])

Sync(cs, op) == Append(cs, [op |-> op, st |-> "ok"])

Settle(cs, st) == [cs EXCEPT ![Len(cs)].st = st]

----------------------------------------------------------------------------
\* Collaborators

\* Swap.startNewTransaction: the device answers with a transaction id it has
\* not given out before.
DeviceStartNewTransaction(n) == n + 1

\* accountBridge.updateTransaction(t, patch): t with the patch's fields replaced.
updateTransaction(t, patch) ==
  [k \in DOMAIN t |-> IF k \in DOMAIN patch THEN patch[k] ELSE t[k]]

\* accountBridge.prepareTransaction(account, t): fills in the fee fields.
prepareTransaction(t) == [t EXCEPT !.prepared = TRUE]

\* The error an awaited call rejects with.
ErrorOf(op) ==
  IF op \in DeviceCommands THEN "DeviceError"
  ELSE IF op \in BridgeCalls THEN "BridgeError"
  ELSE "AddressError"

----------------------------------------------------------------------------
\* Pieces of confirmSwap

\* Mutation: the request carries the id of the previous device transaction.
RateLockRequestStale(id) == [deviceTransactionId |-> IF id > 1 THEN id - 1 ELSE id]

\* Lines 199-210: the body of the rate-lock POST.
RateLockRequest(id) == [deviceTransactionId |-> id]

\* Mutation: the catch block emits the transport's error as it came.
RateLockCatchErrorRaw == "NetworkError"

\* Line 215: the error the catch block emits.
RateLockCatchError == "SwapGenericAPIError"

\* Mutation: only the missing data is tested.
Line221ReturnsOnNoData(unsub, r) == r.kind = "noData"

\* Line 221: if (unsubscribed || !res || !res.data) return;
Line221Returns(unsub, r) == unsub \/ r.kind = "undefined" \/ r.kind = "noData"

\* Mutation: the patch does not carry the recipient.
RecipientPatchEmpty(swapResult) == [k \in {} |-> swapResult.payinAddress]

\* Lines 238-240: the patch handed to updateTransaction.
RecipientPatch(swapResult) == [recipient |-> swapResult.payinAddress]

\* Mutation: the invariant is not enforced.
RecipientInvariantOff(t) == TRUE

\* Lines 243-246: the condition of invariant(...).
RecipientInvariant(t) == t.recipient # AbandonSeedAddress

\* Mutation: only the amount error is tested.
StatusThrowsAmountOnly(s) == s.amount # NoError

\* Mutation: only the recipient error is tested.
StatusThrowsRecipientOnly(s) == s.recipient # NoError

\* Lines 261-263.
StatusThrows(s) == s.recipient # NoError \/ s.amount # NoError

\* Mutation: the amount error takes precedence.
StatusErrorAmountFirst(s) == IF s.amount # NoError THEN s.amount ELSE s.recipient

\* Line 262: throw errors.recipient || errors.amount;
StatusError(s) == IF s.recipient # NoError THEN s.recipient ELSE s.amount

\* Lines 272-274: secp256k1.signatureExport throws on a signature it cannot parse.
SignatureExportThrows(swapResult) == swapResult.signature = "malformed"

\* Line 306 and line 315: if (unsubscribed) return;
Line306Returns(unsub) == unsub

Line315Returns(unsub) == unsub

Rejected(e, t, cs) == [pc |-> "rejected", rejection |-> e, transaction |-> t, calls |-> cs]

\* Lines 221-251, run without suspension once the rate-lock await is over:
\* where confirmSwap stands next, the draft transaction and the calls made.
Lines221To251(unsub, r, ex, t) ==
  IF Line221Returns(unsub, r)
  THEN [pc |-> "fulfilled", rejection |-> NoError, transaction |-> t, calls |-> <<>>]
  ELSE IF r.kind # "data" \/ Len(r.data) = 0
  THEN Rejected("TypeError", t, <<>>)
  ELSE IF ex.payoutType # "CryptoCurrency" \/ ex.refundType # "CryptoCurrency"
  THEN Rejected("NonCryptoCurrencies", t, <<>>)
  ELSE LET updated == updateTransaction(t, RecipientPatch(r.data[1]))
       IN  IF ~RecipientInvariant(updated)
           THEN Rejected("InvariantViolation", updated, Sync(<<>>, "updateTransaction"))
           ELSE [pc |-> "prepareTransaction", rejection |-> NoError,
                 transaction |-> updated,
                 calls |-> Issue(Sync(<<>>, "updateTransaction"), "prepareTransaction")]

----------------------------------------------------------------------------
\* No import is going on.
ImportIdle ==
  /\ ipc = "idle"
  /\ result = <<>>
  /\ existingAccounts = <<>>
  /\ original = <<>>
  /\ items = <<>>
  /\ selectedAccounts = {}
  /\ accounts = <<>>
  /\ shared = FALSE
  /\ selectedItems = <<>>
  /\ cursor = 0

Init ==
  /\ ImportIdle
  /\ pc = [f \in Flows |-> "idle"]
  /\ unsubscribed = [f \in Flows |-> FALSE]
  /\ cancelled = [f \in Flows |-> FALSE]
  /\ exchange \in [Flows -> [payoutType : CurrencyTypes, refundType : CurrencyTypes]]
  /\ transaction \in [Flows -> [recipient : DraftRecipients, prepared : {FALSE}]]
  /\ deviceTransactionId = [f \in Flows |-> 0]
  /\ request = [f \in Flows |-> <<>>]
  /\ res = [f \in Flows |-> NoRes]
  /\ status = [f \in Flows |-> NoStatus]
  /\ rejection = [f \in Flows |-> NoError]
  /\ events = [f \in Flows |-> <<>>]
  /\ completes = [f \in Flows |-> 0]
  /\ calls = [f \in Flows |-> <<>>]
  /\ deviceNonce = 0

\* Lines 169-175 and 321: the subscription runs confirmSwap up to its first await.
Subscribe(f) ==
  /\ pc[f] = "idle"
  /\ pc' = [pc EXCEPT ![f] = "startNewTransaction"]
  /\ unsubscribed' = [unsubscribed EXCEPT ![f] = FALSE]
  /\ calls' = [calls EXCEPT ![f] = Issue(@, "startNewTransaction")]
  /\ UNCHANGED <<importVars, cancelled, exchange, transaction, deviceTransactionId, request, res,
                 status, rejection, events, completes, deviceNonce>>

\* Lines 175-211: the nonce arrives and the rate-lock POST is sent.
StartNewTransactionReturns(f) ==
  /\ pc[f] = "startNewTransaction"
  /\ deviceNonce' = DeviceStartNewTransaction(deviceNonce)
  /\ deviceTransactionId' = [deviceTransactionId EXCEPT ![f] = deviceNonce']
  /\ request' = [request EXCEPT ![f] = Append(@, RateLockRequest(deviceNonce'))]
  /\ calls' = [calls EXCEPT ![f] = Issue(Settle(@, "ok"), "network")]
  /\ pc' = [pc EXCEPT ![f] = "network"]
  /\ UNCHANGED <<importVars, unsubscribed, cancelled, exchange, transaction, res, status,
                 rejection, events, completes>>

\* An awaited call other than the POST rejects: confirmSwap rejects with its error.
CallFails(f) ==
  /\ pc[f] \in AwaitedCalls \ {"network"}
  /\ calls' = [calls EXCEPT ![f] = Settle(@, "failed")]
  /\ rejection' = [rejection EXCEPT ![f] = ErrorOf(pc[f])]
  /\ pc' = [pc EXCEPT ![f] = "rejected"]
  /\ UNCHANGED <<importVars, unsubscribed, cancelled, exchange, transaction, deviceTransactionId,
                 request, res, status, events, completes, deviceNonce>>

\* Lines 221-251 for flow f, entered with the flag unsub and the response r.
AfterRateLock(f, unsub, r, st) ==
  LET out == Lines221To251(unsub, r, exchange[f], transaction[f])
  IN  /\ pc' = [pc EXCEPT ![f] = out.pc]
      /\ rejection' = [rejection EXCEPT ![f] = out.rejection]
      /\ transaction' = [transaction EXCEPT ![f] = out.transaction]
      /\ calls' = [calls EXCEPT ![f] = Settle(@, st) \o out.calls]

\* Lines 196-251: the POST resolves with r.
NetworkReturns(f, r) ==
  /\ pc[f] = "network"
  /\ res' = [res EXCEPT ![f] = r]
  /\ AfterRateLock(f, unsubscribed[f], r, "ok")
  /\ UNCHANGED <<importVars, unsubscribed, cancelled, exchange, deviceTransactionId, request,
                 status, events, completes, deviceNonce>>

\* Lines 212-221: the POST rejects; the catch block emits and completes.
NetworkFails(f) ==
  /\ pc[f] = "network"
  /\ events' = [events EXCEPT ![f] = Append(@, ErrorEvent(RateLockCatchError))]
  /\ completes' = [completes EXCEPT ![f] = @ + 1]
  /\ unsubscribed' = [unsubscribed EXCEPT ![f] = TRUE]
  /\ AfterRateLock(f, TRUE, res[f], "failed")
  /\ UNCHANGED <<importVars, cancelled, exchange, deviceTransactionId, request, res, status,
                 deviceNonce>>

\* Lines 248-259.
PrepareTransactionReturns(f) ==
  /\ pc[f] = "prepareTransaction"
  /\ transaction' = [transaction EXCEPT ![f] = prepareTransaction(@)]
  /\ calls' = [calls EXCEPT ![f] = Issue(Settle(@, "ok"), "getTransactionStatus")]
  /\ pc' = [pc EXCEPT ![f] = "getTransactionStatus"]
  /\ UNCHANGED <<importVars, unsubscribed, cancelled, exchange, deviceTransactionId, request, res,
                 status, rejection, events, completes, deviceNonce>>

\* Lines 253-266.
GetTransactionStatusReturns(f, s) ==
  /\ pc[f] = "getTransactionStatus"
  /\ status' = [status EXCEPT ![f] = s]
  /\ IF StatusThrows(s)
     THEN /\ pc' = [pc EXCEPT ![f] = "rejected"]
          /\ rejection' = [rejection EXCEPT ![f] = StatusError(s)]
          /\ calls' = [calls EXCEPT ![f] = Settle(@, "ok")]
     ELSE /\ pc' = [pc EXCEPT ![f] = "setPartnerKey"]
          /\ rejection' = rejection
          /\ calls' = [calls EXCEPT ![f] = Issue(Settle(@, "ok"), "setPartnerKey")]
  /\ UNCHANGED <<importVars, unsubscribed, cancelled, exchange, transaction, deviceTransactionId,
                 request, res, events, completes, deviceNonce>>

\* An await returns and the next call is issued with nothing in between.
Proceed(f, from, to) ==
  /\ pc[f] = from
  /\ calls' = [calls EXCEPT ![f] = Issue(Settle(@, "ok"), to)]
  /\ pc' = [pc EXCEPT ![f] = to]
  /\ UNCHANGED <<importVars, unsubscribed, cancelled, exchange, transaction, deviceTransactionId,
                 request, res, status, rejection, events, completes, deviceNonce>>

\* Mutation: checkPartner is left out.
SetPartnerKeyReturnsSkipping(f) == Proceed(f, "setPartnerKey", "processTransaction")

\* Lines 266-267.
SetPartnerKeyReturns(f) == Proceed(f, "setPartnerKey", "checkPartner")

\* Mutation: setPartnerKey is sent again after checkPartner.
CheckPartnerReturnsRetrying(f) == Proceed(f, "checkPartner", "setPartnerKey")

\* Lines 267-271.
CheckPartnerReturns(f) == Proceed(f, "checkPartner", "processTransaction")

\* Lines 268-275.
ProcessTransactionReturns(f) ==
  /\ pc[f] = "processTransaction"
  /\ IF SignatureExportThrows(res[f].data[1])
     THEN /\ pc' = [pc EXCEPT ![f] = "rejected"]
          /\ rejection' = [rejection EXCEPT ![f] = "SignatureError"]
          /\ calls' = [calls EXCEPT ![f] = Settle(@, "ok")]
     ELSE /\ pc' = [pc EXCEPT ![f] = "checkTransactionSignature"]
          /\ rejection' = rejection
          /\ calls' = [calls EXCEPT ![f] = Issue(Settle(@, "ok"), "checkTransactionSignature")]
  /\ UNCHANGED <<importVars, unsubscribed, cancelled, exchange, transaction, deviceTransactionId,
                 request, res, status, events, completes, deviceNonce>>

\* Lines 275-281.
CheckTransactionSignatureReturns(f) ==
  Proceed(f, "checkTransactionSignature", "getPayoutAddressParameters")

\* Lines 276-292.
GetPayoutAddressParametersReturns(f) ==
  Proceed(f, "getPayoutAddressParameters", "checkPayoutAddress")

\* Lines 288-299.
CheckPayoutAddressReturns(f) == Proceed(f, "checkPayoutAddress", "getRefundAddressParameters")

\* Lines 294-312.
GetRefundAddressParametersReturns(f) ==
  /\ pc[f] = "getRefundAddressParameters"
  /\ IF Line306Returns(unsubscribed[f])
     THEN /\ pc' = [pc EXCEPT ![f] = "fulfilled"]
          /\ calls' = [calls EXCEPT ![f] = Settle(@, "ok")]
          /\ events' = events
     ELSE /\ pc' = [pc EXCEPT ![f] = "checkRefundAddress"]
          /\ calls' = [calls EXCEPT ![f] = Issue(Settle(@, "ok"), "checkRefundAddress")]
          /\ events' = [events EXCEPT ![f] = Append(@, RequestedEvent)]
  /\ UNCHANGED <<importVars, unsubscribed, cancelled, exchange, transaction, deviceTransactionId,
                 request, res, status, rejection, completes, deviceNonce>>

\* Lines 308-313.
CheckRefundAddressReturns(f) == Proceed(f, "checkRefundAddress", "signCoinTransaction")

\* Lines 313-320.
SignCoinTransactionReturns(f) ==
  /\ pc[f] = "signCoinTransaction"
  /\ pc' = [pc EXCEPT ![f] = "fulfilled"]
  /\ calls' = [calls EXCEPT ![f] = Settle(@, "ok")]
  /\ events' = [events EXCEPT ![f] =
       IF Line315Returns(unsubscribed[f])
       THEN @
       ELSE Append(@, ResultEvent(transaction[f], res[f].data[1].swapId))]
  /\ UNCHANGED <<importVars, unsubscribed, cancelled, exchange, transaction, deviceTransactionId,
                 request, res, status, rejection, completes, deviceNonce>>

\* Lines 322-325: confirmSwap fulfilled.
OnFulfilled(f) ==
  /\ pc[f] = "fulfilled"
  /\ completes' = [completes EXCEPT ![f] = @ + 1]
  /\ unsubscribed' = [unsubscribed EXCEPT ![f] = TRUE]
  /\ pc' = [pc EXCEPT ![f] = "done"]
  /\ UNCHANGED <<importVars, cancelled, exchange, transaction, deviceTransactionId, request, res,
                 status, rejection, events, calls, deviceNonce>>

\* Lines 326-333: confirmSwap rejected.
OnRejected(f) ==
  /\ pc[f] = "rejected"
  /\ events' = [events EXCEPT ![f] = Append(@, ErrorEvent(rejection[f]))]
  /\ completes' = [completes EXCEPT ![f] = @ + 1]
  /\ unsubscribed' = [unsubscribed EXCEPT ![f] = TRUE]
  /\ pc' = [pc EXCEPT ![f] = "done"]
  /\ UNCHANGED <<importVars, cancelled, exchange, transaction, deviceTransactionId, request, res,
                 status, rejection, calls, deviceNonce>>

\* Mutation: the flag is shared by all subscriptions.
TeardownShared(f) ==
  /\ pc[f] \notin {"idle", "done"}
  /\ ~cancelled[f]
  /\ unsubscribed' = [g \in Flows |-> TRUE]
  /\ cancelled' = [cancelled EXCEPT ![f] = TRUE]
  /\ UNCHANGED <<importVars, pc, exchange, transaction, deviceTransactionId, request, res, status,
                 rejection, events, completes, calls, deviceNonce>>

\* Lines 335-337: the subscriber unsubscribes while the flow is running.
Teardown(f) ==
  /\ pc[f] \notin {"idle", "done"}
  /\ ~cancelled[f]
  /\ unsubscribed' = [unsubscribed EXCEPT ![f] = TRUE]
  /\ cancelled' = [cancelled EXCEPT ![f] = TRUE]
  /\ UNCHANGED <<importVars, pc, exchange, transaction, deviceTransactionId, request, res, status,
                 rejection, events, completes, calls, deviceNonce>>

\* One step of flow f.
Step(f) ==
  \/ Subscribe(f)
  \/ StartNewTransactionReturns(f)
  \/ CallFails(f)
  \/ \E r \in Responses : NetworkReturns(f, r)
  \/ NetworkFails(f)
  \/ PrepareTransactionReturns(f)
  \/ \E s \in Statuses : GetTransactionStatusReturns(f, s)
  \/ SetPartnerKeyReturns(f)
  \/ CheckPartnerReturns(f)
  \/ ProcessTransactionReturns(f)
  \/ CheckTransactionSignatureReturns(f)
  \/ GetPayoutAddressParametersReturns(f)
  \/ CheckPayoutAddressReturns(f)
  \/ GetRefundAddressParametersReturns(f)
  \/ CheckRefundAddressReturns(f)
  \/ SignCoinTransactionReturns(f)
  \/ OnFulfilled(f)
  \/ OnRejected(f)
  \/ Teardown(f)

\* All invocations run concurrently, interleaved at their suspension points.
Next == \E f \in Flows : Step(f)

Spec == Init /\ [][Next]_vars

\* One invocation on its own: the other closures are never subscribed.
NextOne == Step(1)

SpecOne == Init /\ [][NextOne]_vars

----------------------------------------------------------------------------
\* Vocabulary of the properties

TerminalTypes == {"init-swap-result", "init-swap-error"}

Indices(seq) == 1..Len(seq)

TerminalCount(evs) == Cardinality({i \in Indices(evs) : evs[i].type \in TerminalTypes})

ErrorCount(evs) == Cardinality({i \in Indices(evs) : evs[i].type = "init-swap-error"})

Ops(f) == {calls[f][i].op : i \in Indices(calls[f])}

CallCount(f, op) == Cardinality({i \in Indices(calls[f]) : calls[f][i].op = op})

RateLockFailed(f) ==
  \E i \in Indices(calls[f]) : calls[f][i] = [op |-> "network", st |-> "failed"]

NonNative(f) ==
  exchange[f].payoutType # "CryptoCurrency" \/ exchange[f].refundType # "CryptoCurrency"

\* The recipient has been overwritten and is the abandon address.
SubstitutedAbandon(f) ==
  "updateTransaction" \in Ops(f) /\ transaction[f].recipient = AbandonSeedAddress

BridgeRejected(f) == status[f].recipient # NoError \/ status[f].amount # NoError

----------------------------------------------------------------------------
\* C1: a flow that ran to its end without being cancelled has emitted exactly
\* one terminal event (init-swap-result or init-swap-error), whatever each
\* awaited call returned.
C1_ExactlyOneTerminal ==
  \A f \in Flows : (pc[f] = "done" /\ ~cancelled[f]) => TerminalCount(events[f]) = 1

\* C2: once the teardown has been called, the flow emits no further event.
C2_NoEventAfterCancel ==
  [][\A f \in Flows : cancelled[f] => events'[f] = events[f]]_vars

\* C3: once the teardown has been called, the flow initiates no new network,
\* bridge or device call.
C3_NoCallAfterCancel ==
  [][\A f \in Flows : cancelled[f] => Len(calls'[f]) = Len(calls[f])]_vars

\* C4 as stated: if the rate-lock call failed, the flow emitted exactly one
\* init-swap-error carrying SwapGenericAPIError and issued no device command.
C4_NoDeviceCommandAtAll ==
  \A f \in Flows :
    RateLockFailed(f) =>
      /\ events[f] = <<ErrorEvent("SwapGenericAPIError")>>
      /\ Ops(f) \cap DeviceCommands = {}

\* C4 amended: if the rate-lock call failed, the events of the flow are
\* exactly one init-swap-error carrying SwapGenericAPIError, and the calls of
\* the flow are startNewTransaction (which returned) and the failed POST: no
\* bridge call and no confirm-stage device command is ever issued.
C4_RateLockFailure ==
  \A f \in Flows :
    RateLockFailed(f) =>
      /\ events[f] = <<ErrorEvent("SwapGenericAPIError")>>
      /\ calls[f] = <<[op |-> "startNewTransaction", st |-> "ok"],
                      [op |-> "network", st |-> "failed"]>>
      /\ pc[f] \in {"fulfilled", "done"}

C4_Witness == \E f \in Flows : RateLockFailed(f) /\ pc[f] = "done"

\* C5: the deviceTransactionId of the rate-lock request is the value that
\* flow's startNewTransaction returned; startNewTransaction is called once,
\* as the flow's first call and so before the request; at most one request
\* is sent; two invocations never send the same deviceTransactionId.
C5_NonceBinding ==
  \A f \in Flows :
    /\ Len(request[f]) <= 1
    /\ CallCount(f, "startNewTransaction") = (IF pc[f] = "idle" THEN 0 ELSE 1)
    /\ CallCount(f, "network") = Len(request[f])
    /\ request[f] # <<>> =>
         /\ calls[f][1] = [op |-> "startNewTransaction", st |-> "ok"]
         /\ calls[f][2].op = "network"
         /\ deviceTransactionId[f] # 0
         /\ request[f][1].deviceTransactionId = deviceTransactionId[f]
    /\ \A g \in Flows \ {f} :
         (request[f] # <<>> /\ request[g] # <<>>) =>
           request[f][1].deviceTransactionId # request[g][1].deviceTransactionId

C5_Witness == \A f \in Flows : request[f] # <<>> /\ pc[f] = "done"

\* C6: no event follows a terminal event of the same flow.
C6_NothingAfterTerminal ==
  [][\A f \in Flows : TerminalCount(events[f]) > 0 => events'[f] = events[f]]_vars

C6_Witness ==
  \E f \in Flows :
    /\ pc[f] = "done"
    /\ cancelled[f]
    /\ events[f] # <<>>
    /\ events[f][Len(events[f])].type = "init-swap-result"

\* The errors of a flow that stops before the confirm stage: a non-native
\* currency, the abandon address as recipient, a recipient or amount error.
PreDeviceFailures ==
  {"NonCryptoCurrencies", "InvariantViolation", "RecipientError", "AmountError"}

\* C7 as stated: a flow that failed for one of these reasons has issued no
\* device command at any point.
C7_NoDeviceCommandAtAll ==
  \A f \in Flows :
    (pc[f] = "done" /\ rejection[f] \in PreDeviceFailures) =>
      Ops(f) \cap DeviceCommands = {}

\* C7 amended: a flow whose currencies are not both native, whose substituted
\* recipient is the abandon address, or whose transaction status carries a
\* recipient or amount error never issues a confirm-stage device command
\* (setPartnerKey onward); when it fails for one of these reasons the only
\* device command it has issued is startNewTransaction.
C7_NoConfirmCommand ==
  \A f \in Flows :
    /\ (NonNative(f) \/ SubstitutedAbandon(f) \/ BridgeRejected(f)) =>
         Ops(f) \cap ConfirmCommands = {}
    /\ rejection[f] \in PreDeviceFailures =>
         Ops(f) \cap DeviceCommands = {"startNewTransaction"}

C7_Witness ==
  \E f \in Flows :
    /\ pc[f] = "done"
    /\ rejection[f] = "AmountError"
    /\ events[f] = <<ErrorEvent("AmountError")>>

\* C8: when the recipient, once overwritten with payinAddress, is the
\* abandon address, confirmSwap rejects at once: prepareTransaction,
\* getTransactionStatus and the confirm-stage device commands are never
\* called, and the flow ends with exactly one init-swap-error event.
C8_AbandonAborts ==
  \A f \in Flows :
    SubstitutedAbandon(f) =>
      /\ Ops(f) \cap ({"prepareTransaction", "getTransactionStatus"} \cup ConfirmCommands) = {}
      /\ pc[f] \in {"rejected", "done"}
      /\ rejection[f] = "InvariantViolation"
      /\ events[f] = IF pc[f] = "done" THEN <<ErrorEvent("InvariantViolation")>> ELSE <<>>

C8_Witness == \E f \in Flows : SubstitutedAbandon(f) /\ pc[f] = "done"

\* C9: a flow whose payout or refund currency is not a CryptoCurrency, run to
\* its end without cancellation, has emitted exactly one event, an
\* init-swap-error, and has never called the transaction bridge.
C9_NonNativeOneError ==
  \A f \in Flows :
    (NonNative(f) /\ pc[f] = "done" /\ ~cancelled[f]) =>
      /\ Len(events[f]) = 1
      /\ ErrorCount(events[f]) = 1
      /\ Ops(f) \cap BridgeCalls = {}

\* C10: the transaction of every init-swap-result has the payinAddress of the
\* rate-lock response as recipient, and from updateTransaction on the draft
\* transaction's recipient is that payinAddress.
C10_ResultRecipient ==
  \A f \in Flows :
    /\ \A i \in Indices(events[f]) :
         events[f][i].type = "init-swap-result" =>
           /\ Len(res[f].data) > 0
           /\ events[f][i].recipient = res[f].data[1].payinAddress
    /\ "updateTransaction" \in Ops(f) =>
         transaction[f].recipient = res[f].data[1].payinAddress

C10_Witness ==
  \E f \in Flows :
    \E i \in Indices(events[f]) :
      /\ events[f][i].type = "init-swap-result"
      /\ events[f][i].recipient \notin DraftRecipients

----------------------------------------------------------------------------
RequestedCount(evs) ==
  Cardinality({i \in Indices(evs) : evs[i].type = "init-swap-requested"})

\* The calls of a flow in which every call succeeds, in program order.
FullRun ==
  <<"startNewTransaction", "network", "updateTransaction", "prepareTransaction",
    "getTransactionStatus", "setPartnerKey", "checkPartner", "processTransaction",
    "checkTransactionSignature", "getPayoutAddressParameters", "checkPayoutAddress",
    "getRefundAddressParameters", "checkRefundAddress", "signCoinTransaction">>

\* The call at position i succeeded.
Succeeded(f, i) == calls[f][i].st = "ok"

\* C11 as stated: init-swap-requested is emitted at most once and no
\* confirm-stage device command is issued before it.
C11_RequestedBeforeConfirmStage ==
  \A f \in Flows :
    /\ RequestedCount(events[f]) <= 1
    /\ Ops(f) \cap ConfirmCommands # {} => RequestedCount(events[f]) = 1

\* C11 amended: init-swap-requested is emitted at most once; it is emitted
\* exactly when checkRefundAddress is issued, so it precedes checkRefundAddress
\* and signCoinTransaction, and it follows setPartnerKey, checkPartner,
\* processTransaction, checkTransactionSignature and checkPayoutAddress, which
\* have all returned successfully by then.
C11_RequestedBeforeRefundCheck ==
  \A f \in Flows :
    /\ RequestedCount(events[f]) <= 1
    /\ RequestedCount(events[f]) = 1 <=> "checkRefundAddress" \in Ops(f)
    /\ "signCoinTransaction" \in Ops(f) => RequestedCount(events[f]) = 1
    /\ RequestedCount(events[f]) = 1 =>
         /\ events[f][1] = RequestedEvent
         /\ \A i \in Indices(calls[f]) :
              calls[f][i].op \in
                {"setPartnerKey", "checkPartner", "processTransaction",
                 "checkTransactionSignature", "checkPayoutAddress"} => Succeeded(f, i)
         /\ {"setPartnerKey", "checkPartner", "processTransaction",
             "checkTransactionSignature", "checkPayoutAddress"} \subseteq Ops(f)

C11_Witness ==
  \E f \in Flows :
    /\ "signCoinTransaction" \in Ops(f)
    /\ events[f] = <<RequestedEvent>>

\* C12: the calls of a flow are issued in the fixed program order (the device
\* commands among them in the order startNewTransaction, setPartnerKey,
\* checkPartner, processTransaction, checkTransactionSignature,
\* checkPayoutAddress, checkRefundAddress, signCoinTransaction), each only
\* after every earlier call has returned successfully; at most one call, the
\* last one issued, is in flight.
C12_FixedOrder ==
  \A f \in Flows :
    /\ Len(calls[f]) <= Len(FullRun)
    /\ \A i \in Indices(calls[f]) :
         /\ calls[f][i].op = FullRun[i]
         /\ i < Len(calls[f]) => Succeeded(f, i)
    /\ Cardinality({i \in Indices(calls[f]) :
                      calls[f][i].op \in DeviceCommands /\ calls[f][i].st = "inflight"}) <= 1

C12_Witness ==
  \E f \in Flows :
    /\ Len(calls[f]) = Len(FullRun)
    /\ calls[f][Len(FullRun)].st = "inflight"

\* C13: init-swap-result is emitted only when every stage has completed in
\* order: all calls from startNewTransaction to signCoinTransaction were made
\* and succeeded, the response carried a swap result, both currencies are
\* native, the recipient is not the abandon address, the transaction was
\* prepared and its status has no recipient or amount error.
C13_ResultAfterAllStages ==
  \A f \in Flows :
    (\E i \in Indices(events[f]) : events[f][i].type = "init-swap-result") =>
      /\ Len(calls[f]) = Len(FullRun)
      /\ \A i \in Indices(calls[f]) : calls[f][i] = [op |-> FullRun[i], st |-> "ok"]
      /\ deviceTransactionId[f] # 0
      /\ res[f].kind = "data" /\ Len(res[f].data) = 1
      /\ ~NonNative(f)
      /\ transaction[f].recipient # AbandonSeedAddress
      /\ transaction[f].prepared
      /\ ~BridgeRejected(f)
      /\ events[f] = <<RequestedEvent, ResultEvent(transaction[f], res[f].data[1].swapId)>>

C13_Witness ==
  \E f \in Flows :
    /\ pc[f] = "done"
    /\ Len(events[f]) = 2
    /\ events[f][2].type = "init-swap-result"

\* The POST resolved, with a response that carries no swap result.
MalformedResponse(f) ==
  /\ \E i \in Indices(calls[f]) : calls[f][i] = [op |-> "network", st |-> "ok"]
  /\ res[f].kind # "data" \/ Len(res[f].data) = 0

\* C14: a rate-lock call that completes with no response, no data or an empty
\* data array ends the flow (when it is not cancelled) with exactly one event,
\* an init-swap-error carrying SwapGenericAPIError.
C14_MalformedIsGenericError ==
  \A f \in Flows :
    (MalformedResponse(f) /\ pc[f] = "done" /\ ~cancelled[f]) =>
      events[f] = <<ErrorEvent("SwapGenericAPIError")>>

\* C15: no call is made twice in a flow (one rate-lock POST, each device
\* command and each bridge call at most once), and a call that failed is the
\* last call of its flow.
C15_NoRetry ==
  \A f \in Flows :
    /\ Len(request[f]) <= 1
    /\ \A op \in AwaitedCalls \cup BridgeCalls : CallCount(f, op) <= 1
    /\ \A i \in Indices(calls[f]) :
         calls[f][i].st = "failed" =>
           /\ i = Len(calls[f])
           /\ pc[f] \in {"rejected", "fulfilled", "done"}

C15_Witness ==
  \E f \in Flows :
    /\ pc[f] = "done"
    /\ calls[f][Len(calls[f])] = [op |-> "processTransaction", st |-> "failed"]

\* C16: when the transaction status carries a recipient or an amount error,
\* confirmSwap rejects with the recipient error if there is one and with the
\* amount error otherwise, the flow ends with exactly that one
\* init-swap-error event, and no confirm-stage device command is issued; a
\* status whose only error is on another field lets the flow go on to
\* setPartnerKey.
C16_StatusErrors ==
  \A f \in Flows :
    /\ BridgeRejected(f) =>
         /\ pc[f] \in {"rejected", "done"}
         /\ rejection[f] =
              (IF status[f].recipient # NoError THEN status[f].recipient
               ELSE status[f].amount)
         /\ events[f] = IF pc[f] = "done" THEN <<ErrorEvent(rejection[f])>> ELSE <<>>
         /\ Ops(f) \cap ConfirmCommands = {}
    /\ (status[f].other # NoError /\ ~BridgeRejected(f)) => "setPartnerKey" \in Ops(f)

C16_Witness ==
  \E f \in Flows :
    /\ status[f].recipient # NoError
    /\ status[f].amount # NoError
    /\ pc[f] = "done"

\* C17: completion is signalled at most once, and exactly once in a flow that
\* has run to its end.
C17_CompletedOnce ==
  \A f \in Flows :
    /\ completes[f] <= 1
    /\ pc[f] = "done" => completes[f] = 1

\* Everything the closure of flow f holds and everything it has emitted.
Local(f) ==
  <<pc[f], unsubscribed[f], cancelled[f], exchange[f], transaction[f],
    deviceTransactionId[f], request[f], res[f], status[f], rejection[f], events[f],
    completes[f], calls[f]>>

\* The events the outcomes of a flow's own calls dictate, for a flow that ran
\* to its end without being cancelled.
OwnEvents(f) ==
  (IF "checkRefundAddress" \in Ops(f) THEN <<RequestedEvent>> ELSE <<>>)
    \o (IF rejection[f] # NoError THEN <<ErrorEvent(rejection[f])>>
        ELSE IF RateLockFailed(f) THEN <<ErrorEvent("SwapGenericAPIError")>>
        ELSE IF calls[f][Len(calls[f])] = [op |-> "signCoinTransaction", st |-> "ok"]
        THEN <<ResultEvent(transaction[f], res[f].data[1].swapId)>>
        ELSE <<>>)

\* C18: concurrent flows are independent.  No step changes the flag, the
\* nonce, the draft transaction, the events or any other closure state of two
\* flows at once, so cancelling or failing one flow leaves the other's state
\* and events as they are; and the events of a flow that ran to its end
\* without being cancelled are those its own calls dictate, whatever the
\* other flow did.
C18_Independent ==
  /\ [][\A f \in Flows : \A g \in Flows \ {f} :
          Local(f)' = Local(f) \/ Local(g)' = Local(g)]_vars
  /\ [](\A f \in Flows : (pc[f] = "done" /\ ~cancelled[f]) => events[f] = OwnEvents(f))

C18_Witness ==
  \E f \in Flows : \E g \in Flows \ {f} :
    /\ pc[f] = "done" /\ cancelled[f] /\ events[f] = <<>>
    /\ pc[g] = "done" /\ ~cancelled[g]
    /\ Len(events[g]) = 2 /\ events[g][2].type = "init-swap-result"
    /\ deviceTransactionId[f] > deviceTransactionId[g]

----------------------------------------------------------------------------
\* importAccountsMakeItems and importAccountsReduce (lines 1-130).
\*
\* An account is a record of the fields the two functions read: id, name and
\* swapHistory, and what the collaborators of ./support and ../cross look at
\* (address, legacy: an account in an older id format that can be migrated,
\* supported).  Arrays are sequences; a JS index i is the position i + 1.

MaxAccounts == 2         \* longest list of existing accounts of SpecReduce
MaxItems == 2            \* longest list of items of SpecReduce

AccountIds == {"id1", "id2"}
Addresses == {"addr1", "addr2"}
Modes == {"create", "update", "id", "unsupported"}

SeqsUpTo(S, n) == UNION {[1..k -> S] : k \in 0..n}

DistinctIds(list) ==
  \A i \in 1..Len(list) : \A j \in 1..Len(list) : list[i].id = list[j].id => i = j

Undefined == [undefined |-> TRUE]
Null == [null |-> TRUE]

\* lines 10-15
itemModeDisplaySort(mode) ==
  CASE mode = "create" -> 1
    [] mode = "update" -> 2
    [] mode = "id" -> 3
    [] mode = "unsupported" -> 4

\* Array.prototype.find: the first element that satisfies the test, or
\* undefined; hits are the positions of the elements that satisfy it.
find(arr, hits) ==
  IF hits # {}
  THEN arr[CHOOSE k \in hits : \A j \in hits : k <= j]
  ELSE Undefined

\* Array.prototype.indexOf: the JS index of the first occurrence, or -1.
indexOf(arr, x) ==
  IF \E k \in 1..Len(arr) : arr[k] = x
  THEN (CHOOSE k \in 1..Len(arr) : arr[k] = x /\ \A j \in 1..(k - 1) : arr[j] # x) - 1
  ELSE -1

ArrayAssignWrapping(arr, i, v) ==
  IF i >= 0 /\ i < Len(arr) THEN [arr EXCEPT ![i + 1] = v]
  ELSE IF i < 0 /\ Len(arr) + i >= 0 THEN [arr EXCEPT ![Len(arr) + i + 1] = v]
  ELSE arr

\* arr[i] = v.  With a negative i the assignment creates a property named
\* "-1" on the array object: no element changes and length stays as it is.
\* (i is never beyond the last element: it comes from indexOf.)
ArrayAssign(arr, i, v) ==
  IF i >= 0 /\ i < Len(arr) THEN [arr EXCEPT ![i + 1] = v] ELSE arr

\* Array.prototype.sort with the comparator of line 99: stable, by rank.
SortByMode(list) ==
  LET OfRank(r) == SelectSeq(list, LAMBDA it : itemModeDisplaySort(it.mode) = r)
  IN OfRank(1) \o OfRank(2) \o OfRank(3) \o OfRank(4)

\* ../cross accountDataToAccount: the account the data describes, with the
\* id, name and swap history of the data; throws on data it cannot decode.
accountDataToAccount(accInput) ==
  IF ~accInput.decodes THEN Null
  ELSE [id |-> accInput.id, name |-> accInput.name, address |-> accInput.address,
        legacy |-> FALSE, supported |-> accInput.supported,
        swapHistory |-> accInput.swapHistory]

\* ./support checkAccountSupported: an error for an account this build cannot handle.
checkAccountSupported(account) == ~account.supported

\* ./support findAccountMigration(a, [account]): account is what the older
\* account a migrates to: the same address under another id.
findAccountMigration(a, account) ==
  a.legacy /\ a.id # account.id /\ a.address = account.address

\* ../swap/joinSwapHistories
joinSwapHistories(h1, h2) == h1 \cup h2

\* lines 34-97: the item of one incoming account, Null where line 95 returns null.
MakeItem(accInput, accs, prevItems) ==
  LET prevItem ==
        find(prevItems, {k \in 1..Len(prevItems) : prevItems[k].account.id = accInput.id})
      account == accountDataToAccount(accInput)
      migratableAccount ==
        find(accs, {k \in 1..Len(accs) : findAccountMigration(accs[k], account)})
      existingAccount == find(accs, {k \in 1..Len(accs) : accs[k].id = accInput.id})
  IN IF prevItem # Undefined THEN prevItem
     ELSE IF account = Null THEN Null
     ELSE IF checkAccountSupported(account)
       THEN [initialAccountId |-> account.id, account |-> account, mode |-> "unsupported"]
     ELSE IF migratableAccount # Undefined
       THEN [initialAccountId |-> migratableAccount.id, account |-> account, mode |-> "update"]
     ELSE IF existingAccount # Undefined
       THEN IF /\ existingAccount.name = accInput.name
               /\ existingAccount.swapHistory = account.swapHistory
            THEN [initialAccountId |-> existingAccount.id, account |-> existingAccount,
                  mode |-> "id"]
            ELSE [initialAccountId |-> existingAccount.id,
                  account |-> [existingAccount EXCEPT
                                 !.name = accInput.name,
                                 !.swapHistory = joinSwapHistories(existingAccount.swapHistory,
                                                                   account.swapHistory)],
                  mode |-> "update"]
     ELSE [initialAccountId |-> account.id, account |-> account, mode |-> "create"]

\* lines 24-99
importAccountsMakeItems(res0, accs, prevItems) ==
  SortByMode(SelectSeq([k \in 1..Len(res0) |-> MakeItem(res0[k], accs, prevItems)],
                       LAMBDA it : it # Null))

\* line 111: slice(0) returns a new array.
SliceShares == FALSE

\* lines 116-127: what one selected item does to the array.
ApplyItem(arr, item) ==
  CASE item.mode = "create" -> Append(arr, item.account)
    [] item.mode = "update" ->
         LET found == find(arr, {k \in 1..Len(arr) : arr[k].id = item.initialAccountId})
             i == indexOf(arr, found)
         IN ArrayAssign(arr, i, item.account)
    [] OTHER -> arr

\* The first scan: importAccountsMakeItems without previous items.
MakeItems ==
  /\ ipc = "make"
  /\ items' = importAccountsMakeItems(result, existingAccounts, <<>>)
  /\ ipc' = "made"
  /\ UNCHANGED <<swapVars, result, existingAccounts, original, selectedAccounts, accounts, shared,
                 selectedItems, cursor>>

\* A later scan: importAccountsMakeItems is given the items of the scan before.
RemakeItems ==
  /\ ipc = "made"
  /\ items' = importAccountsMakeItems(result, existingAccounts, items)
  /\ ipc' = "remade"
  /\ UNCHANGED <<swapVars, result, existingAccounts, original, selectedAccounts, accounts, shared,
                 selectedItems, cursor>>

\* lines 111-114: importAccountsReduce is called.
ReduceCall ==
  /\ ipc \in {"made", "remade", "reduce"}
  /\ accounts' = existingAccounts
  /\ shared' = SliceShares
  /\ selectedItems' = SelectSeq(items, LAMBDA item : item.account.id \in selectedAccounts)
  /\ cursor' = 1
  /\ ipc' = "loop"
  /\ UNCHANGED <<swapVars, result, existingAccounts, original, items, selectedAccounts>>

\* lines 115-128: one iteration of the loop.
ReduceIterate ==
  /\ ipc = "loop"
  /\ cursor <= Len(selectedItems)
  /\ accounts' = ApplyItem(accounts, selectedItems[cursor])
  /\ existingAccounts' = IF shared THEN accounts' ELSE existingAccounts
  /\ cursor' = cursor + 1
  /\ UNCHANGED <<swapVars, ipc, result, original, items, selectedAccounts, shared, selectedItems>>

\* line 129
ReduceReturn ==
  /\ ipc = "loop"
  /\ cursor > Len(selectedItems)
  /\ ipc' = "returned"
  /\ UNCHANGED <<swapVars, result, existingAccounts, original, items, selectedAccounts, accounts,
                 shared, selectedItems, cursor>>

\* No swap is going on.
SwapIdle ==
  /\ pc = [f \in Flows |-> "idle"]
  /\ unsubscribed = [f \in Flows |-> FALSE]
  /\ cancelled = [f \in Flows |-> FALSE]
  /\ exchange = [f \in Flows |-> "native"]
  /\ transaction = [f \in Flows |-> [recipient |-> "draft", prepared |-> FALSE]]
  /\ deviceTransactionId = [f \in Flows |-> 0]
  /\ request = [f \in Flows |-> 0]
  /\ res = [f \in Flows |-> NoRes]
  /\ status = [f \in Flows |-> NoStatus]
  /\ rejection = [f \in Flows |-> NoError]
  /\ events = [f \in Flows |-> <<>>]
  /\ completes = [f \in Flows |-> 0]
  /\ calls = [f \in Flows |-> <<>>]
  /\ deviceNonce = 0

\* The accounts and items importAccountsReduce is called with in SpecReduce.
ExistingOfReduce ==
  {[id |-> i, name |-> "old", address |-> "addr1", legacy |-> FALSE, supported |-> TRUE,
    swapHistory |-> {}] : i \in AccountIds}

ItemsOfReduce ==
  {[initialAccountId |-> i,
    account |-> [id |-> j, name |-> "new", address |-> "addr1", legacy |-> FALSE,
                 supported |-> TRUE, swapHistory |-> {}],
    mode |-> m] : i \in AccountIds, j \in AccountIds, m \in Modes}

\* importAccountsReduce on every list of existing accounts, every list of
\* items and every selection.
InitReduce ==
  /\ SwapIdle
  /\ ipc = "reduce"
  /\ result = <<>>
  /\ existingAccounts \in SeqsUpTo(ExistingOfReduce, MaxAccounts)
  /\ original = existingAccounts
  /\ items \in SeqsUpTo(ItemsOfReduce, MaxItems)
  /\ selectedAccounts \in SUBSET AccountIds
  /\ accounts = <<>>
  /\ shared = FALSE
  /\ selectedItems = <<>>
  /\ cursor = 0

NextReduce == ReduceCall \/ ReduceIterate \/ ReduceReturn

SpecReduce == InitReduce /\ [][NextReduce]_vars

\* The existing accounts and the incoming account data of SpecImport.
ExistingOfImport ==
  {[id |-> i, name |-> "old", address |-> a, legacy |-> l, supported |-> TRUE,
    swapHistory |-> {}] : i \in AccountIds, a \in Addresses, l \in BOOLEAN}

DataOfImport ==
  {[id |-> i, name |-> n, address |-> "addr1", decodes |-> d, supported |-> u,
    swapHistory |-> h] :
      i \in AccountIds, n \in {"old", "new"}, d \in BOOLEAN, u \in BOOLEAN,
      h \in {{}, {"swap1"}}}

\* An import: existing accounts with pairwise distinct ids, incoming account
\* data with pairwise distinct ids, any selection.
InitImport ==
  /\ SwapIdle
  /\ ipc = "make"
  /\ result \in {r \in SeqsUpTo(DataOfImport, Cardinality(AccountIds)) : DistinctIds(r)}
  /\ existingAccounts \in
       {e \in SeqsUpTo(ExistingOfImport, Cardinality(AccountIds)) : DistinctIds(e)}
  /\ original = existingAccounts
  /\ items = <<>>
  /\ selectedAccounts \in SUBSET AccountIds
  /\ accounts = <<>>
  /\ shared = FALSE
  /\ selectedItems = <<>>
  /\ cursor = 0

NextImport == MakeItems \/ RemakeItems \/ ReduceCall \/ ReduceIterate \/ ReduceReturn

SpecImport == InitImport /\ [][NextImport]_vars

\* What the selected items, applied in item order, make of a list: a selected
\* "create" item appends its account, a selected "update" item puts its
\* account in the place of the (first) account whose id is initialAccountId,
\* every other item leaves the list as it is.
EffectOf(list, item, sel) ==
  IF item.account.id \notin sel THEN list
  ELSE IF item.mode = "create" THEN list \o <<item.account>>
  ELSE IF item.mode = "update"
    THEN [k \in 1..Len(list) |->
            IF /\ list[k].id = item.initialAccountId
               /\ \A j \in 1..(k - 1) : list[j].id # item.initialAccountId
            THEN item.account ELSE list[k]]
  ELSE list

RECURSIVE Transformed(_, _, _)
Transformed(list, its, sel) ==
  IF its = <<>> THEN list
  ELSE Transformed(EffectOf(list, Head(its), sel), Tail(its), sel)

SelectedCreates ==
  {k \in 1..Len(items) : items[k].mode = "create" /\ items[k].account.id \in selectedAccounts}

\* C19: importAccountsReduce returns the existing list transformed by the
\* selected items in item order (create appends, update replaces in place,
\* everything else changes nothing); the caller's list is as it was; and the
\* result is as long as the existing list plus one per selected "create"
\* item, also when an "update" item matches no account.
C19_ReduceResult ==
  ipc = "returned" =>
    /\ accounts = Transformed(original, items, selectedAccounts)
    /\ existingAccounts = original
    /\ Len(accounts) = Len(original) + Cardinality(SelectedCreates)

\* A call returned whose first selected item was an "update" that matched no
\* account of a non-empty list and whose second was a "create".
C19_Witness ==
  /\ ipc = "returned"
  /\ Len(original) >= 1
  /\ Len(selectedItems) = MaxItems
  /\ selectedItems[1].mode = "update"
  /\ \A k \in 1..Len(original) : original[k].id # selectedItems[1].initialAccountId
  /\ selectedItems[Len(selectedItems)].mode = "create"
  /\ Len(accounts) = Len(original) + 1

\* C20: an import keeps account ids unique: from existing accounts with
\* pairwise distinct ids and incoming accounts with pairwise distinct ids,
\* importAccountsReduce on the items of importAccountsMakeItems returns
\* accounts with pairwise distinct ids.
C20_UniqueIds == ipc = "returned" => DistinctIds(accounts)

\* The other parts of C17.  Every awaited call of the subscribed flow
\* eventually returns or fails and every handler eventually runs.
FairSpecOne == SpecOne /\ WF_vars(NextOne)

\* C17, liveness: a subscribed flow eventually signals completion.
C17_EventuallyCompleted == (pc[1] # "idle") ~> (completes[1] >= 1)

\* C17, order: no event is emitted once completion has been signalled.
C17_NoEventAfterCompletion ==
  [][\A f \in Flows : completes[f] > 0 => events'[f] = events[f]]_vars

====
